---- MODULE Spec2Model ----
(***************************************************************************)
(* A model of package ini (creachadair/ini): the line scanner Parse, its   *)
(* pending-key accumulator and the Handler callbacks it drives.            *)
(*                                                                         *)
(* Go strings are modelled as sequences of one-character strings, so the   *)
(* string functions Parse uses (TrimSpace, Fields, Join, Index, ...) are   *)
(* computed character by character.  "" is the empty sequence << >>.       *)
(***************************************************************************)
EXTENDS Integers, Sequences, FiniteSets, TLC

VARIABLES
    input,      \* the lines buf.Scan() has delivered so far, in order
    loc,        \* Parse: loc, the current physical input location
    keyLoc,     \* Parse: keyLoc, the location of curKey
    curKey,     \* Parse: curKey, the key being accumulated ("" = none)
    values,     \* Parse: values, the values accumulated for curKey
    h,          \* the Handler: the set of callbacks that are not nil
    calls,      \* every callback invocation so far, with what it returned
    err,        \* the error Parse returned (Nil while scanning or on success)
    pc          \* "scan" while in the loop, "returned" once Parse returned

vars == <<input, loc, keyLoc, curKey, values, h, calls, err, pc>>

----------------------------------------------------------------------------
(* Bounds of the model.                                                    *)

\* Longest input, in lines, of the line-by-line specification.
MaxLines == 3

\* Longest line of the specification that scans every string over Alphabet.
MaxLineLen == 4

----------------------------------------------------------------------------
(* Strings.                                                                *)

\* The characters unicode.IsSpace accepts, as far as the inputs use them.
WhiteSpace == {" ", "\t", "\f", "\r"}

IsSpace(c) == c \in WhiteSpace

SetMin(S) == CHOOSE x \in S : \A y \in S : x <= y

SetMax(S) == CHOOSE x \in S : \A y \in S : x >= y

\* strings.TrimSpace: s without its leading and trailing white space.
TrimSpace(s) ==
    LET keep == {i \in 1..Len(s) : ~IsSpace(s[i])}
    IN  IF keep = {} THEN <<>> ELSE SubSeq(s, SetMin(keep), SetMax(keep))

\* strings.HasPrefix.
HasPrefix(s, prefix) ==
    /\ Len(s) >= Len(prefix)
    /\ SubSeq(s, 1, Len(prefix)) = prefix

\* strings.Index for a one-character substring: the 0-based index of the
\* first occurrence of c in s, or -1.
Index(s, c) ==
    LET at == {i \in 1..Len(s) : s[i] = c}
    IN  IF at = {} THEN -1 ELSE SetMin(at) - 1

\* strings.ContainsAny: some character of s is in chars.
ContainsAny(s, chars) == \E i \in 1..Len(s) : s[i] \in chars

\* strings.Fields: the maximal runs of non-space characters of s, in order.
RECURSIVE Fields(_)
Fields(s) ==
    LET start == {i \in 1..Len(s) : ~IsSpace(s[i])}
    IN  IF start = {} THEN <<>>
        ELSE LET a == SetMin(start)
                 stop == {i \in a..Len(s) : IsSpace(s[i])}
                 b == IF stop = {} THEN Len(s) + 1 ELSE SetMin(stop)
             IN  <<SubSeq(s, a, b - 1)>> \o Fields(SubSeq(s, b, Len(s)))

\* strings.Join.
RECURSIVE Join(_, _)
Join(elems, sep) ==
    IF elems = <<>> THEN <<>>
    ELSE IF Len(elems) = 1 THEN elems[1]
    ELSE elems[1] \o sep \o Join(Tail(elems), sep)


\* cleanKey trimming the key without collapsing its internal white space.
cleanKey_trimOnly(key) == TrimSpace(key)

cleanKey(key) == Join(Fields(key), <<" ">>)

----------------------------------------------------------------------------
(* Errors and locations.                                                   *)

Nil == [kind |-> "nil"]

\* The error value a failing callback returns.
HandlerErr == [kind |-> "handler", val |-> "E"]

\* The error buf.Err() reports when reading the input fails.
ReadErr == [kind |-> "read"]

msgUnclosedHeader == "unclosed section header"

msgInvalidSection == "invalid section name"

msgEmptyKey == "empty key"

syntaxError(l, msg, key) ==
    [kind |-> "syntax", Location |-> l, Desc |-> msg, Key |-> key]

Location(line, section) == [Line |-> line, Section |-> section]

AllCallbacks == {"Comment", "Section", "KeyValue"}

----------------------------------------------------------------------------
(* The scanner state as one record, and the handler.                       *)
(*                                                                         *)
(* failAt is the number of the callback invocation (counted over the whole *)
(* Parse) at which the caller's callback returns HandlerErr; 0 = never.    *)

Scanner(hh, failAt) ==
    [h |-> hh, failAt |-> failAt,
     loc |-> Location(0, <<>>), keyLoc |-> Location(0, <<>>),
     curKey |-> <<>>, values |-> <<>>, calls |-> <<>>, err |-> Nil]

\* One invocation of a callback the caller supplied: it sees its arguments
\* and returns nil or an error.
Invoke(p, kind, l, text, vals) ==
    LET ret == IF Len(p.calls) + 1 = p.failAt THEN HandlerErr ELSE Nil
    IN  [p EXCEPT !.calls = Append(@, [kind |-> kind, loc |-> l, text |-> text,
                                       values |-> vals, ret |-> ret]),
                  !.err = ret]

h_comment(p, l, text) ==
    IF "Comment" \in p.h THEN Invoke(p, "Comment", l, text, <<>>) ELSE p

h_section(p, l, name) ==
    IF "Section" \in p.h THEN Invoke(p, "Section", l, name, <<>>) ELSE p


\* keyValue failing when the KeyValue callback is nil.
h_keyValue_nilFails(p, l, key, vals) ==
    IF "KeyValue" \in p.h THEN Invoke(p, "KeyValue", l, key, vals)
    ELSE [p EXCEPT !.err = HandlerErr]

h_keyValue(p, l, key, vals) ==
    IF "KeyValue" \in p.h THEN Invoke(p, "KeyValue", l, key, vals) ELSE p

\* emit without its test for a pending key.
emit_unguarded(p) ==
    LET q == h_keyValue(p, p.keyLoc, p.curKey, p.values)
    IN  [q EXCEPT !.curKey = <<>>, !.values = <<>>]

\* emit: deliver the pending key, if any; the deferred function clears the
\* accumulator whether or not the callback failed.

\* emit clearing the accumulator only when the callback succeeds.
emit_keepOnError(p) ==
    LET q == IF p.curKey = <<>> THEN p
             ELSE h_keyValue(p, p.keyLoc, p.curKey, p.values)
    IN  IF q.err # Nil THEN q
        ELSE [q EXCEPT !.curKey = <<>>, !.values = <<>>]

emit(p) ==
    LET q == IF p.curKey = <<>> THEN p
             ELSE h_keyValue(p, p.keyLoc, p.curKey, p.values)
    IN  [q EXCEPT !.curKey = <<>>, !.values = <<>>]

\* SectionLine accepting brackets inside the section name.
SectionLine_anyName(p, clean) ==
    IF clean[Len(clean)] # "]"
    THEN [p EXCEPT !.err = syntaxError(p.loc, msgUnclosedHeader,
                                       SubSeq(clean, 2, Len(clean)))]
    ELSE LET name == cleanKey(SubSeq(clean, 2, Len(clean) - 1))
         IN  IF name = <<>>
             THEN [p EXCEPT !.err = syntaxError(p.loc, msgInvalidSection, name)]
             ELSE LET e == emit(p)
                  IN  IF e.err # Nil THEN e
                      ELSE LET s == h_section(e, e.loc, name)
                           IN  IF s.err # Nil THEN s
                               ELSE [s EXCEPT !.loc.Section = name]

\* SectionLine setting loc.Section before it delivers the header.
SectionLine_early(p, clean) ==
    IF clean[Len(clean)] # "]"
    THEN [p EXCEPT !.err = syntaxError(p.loc, msgUnclosedHeader,
                                       SubSeq(clean, 2, Len(clean)))]
    ELSE LET name == cleanKey(SubSeq(clean, 2, Len(clean) - 1))
         IN  IF name = <<>> \/ ContainsAny(name, {"[", "]"})
             THEN [p EXCEPT !.err = syntaxError(p.loc, msgInvalidSection, name)]
             ELSE LET e == emit(p)
                  IN  IF e.err # Nil THEN e
                      ELSE h_section([e EXCEPT !.loc.Section = name],
                                     Location(e.loc.Line, name), name)

\* The section-header branch of the loop body.

\* SectionLine flushing the pending key before it validates the header.
SectionLine_flushFirst(p, clean) ==
    LET e == emit(p)
    IN  IF e.err # Nil THEN e
        ELSE IF clean[Len(clean)] # "]"
        THEN [e EXCEPT !.err = syntaxError(e.loc, msgUnclosedHeader,
                                           SubSeq(clean, 2, Len(clean)))]
        ELSE LET name == cleanKey(SubSeq(clean, 2, Len(clean) - 1))
             IN  IF name = <<>> \/ ContainsAny(name, {"[", "]"})
                 THEN [e EXCEPT !.err = syntaxError(e.loc, msgInvalidSection,
                                                    name)]
                 ELSE LET s == h_section(e, e.loc, name)
                      IN  IF s.err # Nil THEN s
                          ELSE [s EXCEPT !.loc.Section = name]

SectionLine(p, clean) ==
    IF clean[Len(clean)] # "]"
    THEN [p EXCEPT !.err = syntaxError(p.loc, msgUnclosedHeader,
                                       SubSeq(clean, 2, Len(clean)))]
    ELSE LET name == cleanKey(SubSeq(clean, 2, Len(clean) - 1))
         IN  IF name = <<>> \/ ContainsAny(name, {"[", "]"})
             THEN [p EXCEPT !.err = syntaxError(p.loc, msgInvalidSection, name)]
             ELSE LET e == emit(p)
                  IN  IF e.err # Nil THEN e
                      ELSE LET s == h_section(e, e.loc, name)
                           IN  IF s.err # Nil THEN s
                               ELSE [s EXCEPT !.loc.Section = name]

\* BareLine appending the first continuation after an empty inline value.
BareLine_appendOnly(p, clean, isIndented) ==
    IF isIndented /\ p.curKey # <<>>
    THEN [p EXCEPT !.values = Append(@, clean)]
    ELSE LET e == emit(p)
         IN  IF e.err # Nil THEN e
             ELSE h_keyValue(e, e.loc, cleanKey(clean), << <<>> >>)

\* BareLine delivering a bare key with no value at all.
BareLine_noValue(p, clean, isIndented) ==
    IF isIndented /\ p.curKey # <<>>
    THEN IF Len(p.values) = 1 /\ p.values[1] = <<>>
         THEN [p EXCEPT !.values[1] = clean]
         ELSE [p EXCEPT !.values = Append(@, clean)]
    ELSE LET e == emit(p)
         IN  IF e.err # Nil THEN e
             ELSE h_keyValue(e, e.loc, cleanKey(clean), <<>>)

\* BareLine going on to deliver the bare key when emit has failed.
BareLine_ignoreEmitErr(p, clean, isIndented) ==
    IF isIndented /\ p.curKey # <<>>
    THEN IF Len(p.values) = 1 /\ p.values[1] = <<>>
         THEN [p EXCEPT !.values[1] = clean]
         ELSE [p EXCEPT !.values = Append(@, clean)]
    ELSE LET e == emit(p)
         IN  h_keyValue(e, e.loc, cleanKey(clean), << <<>> >>)


\* BareLine delivering the bare key before it flushes the pending key.
BareLine_keyFirst(p, clean, isIndented) ==
    IF isIndented /\ p.curKey # <<>>
    THEN IF Len(p.values) = 1 /\ p.values[1] = <<>>
         THEN [p EXCEPT !.values[1] = clean]
         ELSE [p EXCEPT !.values = Append(@, clean)]
    ELSE LET k == h_keyValue(p, p.loc, cleanKey(clean), << <<>> >>)
         IN  IF k.err # Nil THEN k ELSE emit(k)

\* The branch of the loop body for a line without "=".

\* BareLine making a standalone bare key the pending key, with an empty
\* value, instead of delivering it.
BareLine_becomesPending(p, clean, isIndented) ==
    IF isIndented /\ p.curKey # <<>>
    THEN IF Len(p.values) = 1 /\ p.values[1] = <<>>
         THEN [p EXCEPT !.values[1] = clean]
         ELSE [p EXCEPT !.values = Append(@, clean)]
    ELSE LET e == emit(p)
         IN  IF e.err # Nil THEN e
             ELSE [e EXCEPT !.keyLoc = e.loc,
                            !.curKey = cleanKey(clean),
                            !.values = << <<>> >>]

BareLine(p, clean, isIndented) ==
    IF isIndented /\ p.curKey # <<>>
    THEN IF Len(p.values) = 1 /\ p.values[1] = <<>>
         THEN [p EXCEPT !.values[1] = clean]
         ELSE [p EXCEPT !.values = Append(@, clean)]
    ELSE LET e == emit(p)
         IN  IF e.err # Nil THEN e
             ELSE h_keyValue(e, e.loc, cleanKey(clean), << <<>> >>)

\* KeyValueLine flushing the pending key even when the key is the same.
KeyValueLine_alwaysFlush(p, clean, i) ==
    LET key == cleanKey(SubSeq(clean, 1, i))
    IN  IF key = <<>>
        THEN [p EXCEPT !.err = syntaxError(p.loc, msgEmptyKey, <<>>)]
        ELSE LET value == TrimSpace(SubSeq(clean, i + 2, Len(clean)))
                 e == emit(p)
             IN  IF e.err # Nil THEN e
                 ELSE [e EXCEPT !.keyLoc = e.loc, !.curKey = key,
                                !.values = Append(@, value)]


\* KeyValueLine moving keyLoc to every line of the key.
KeyValueLine_lateLoc(p, clean, i) ==
    LET key == cleanKey(SubSeq(clean, 1, i))
    IN  IF key = <<>>
        THEN [p EXCEPT !.err = syntaxError(p.loc, msgEmptyKey, <<>>)]
        ELSE LET value == TrimSpace(SubSeq(clean, i + 2, Len(clean)))
                 q == IF key # p.curKey
                      THEN LET e == emit(p)
                           IN  IF e.err # Nil THEN e
                               ELSE [e EXCEPT !.keyLoc = e.loc, !.curKey = key]
                      ELSE [p EXCEPT !.keyLoc = p.loc]
             IN  IF q.err # Nil THEN q
                 ELSE [q EXCEPT !.values = Append(@, value)]

\* The branch of the loop body for a key=value line; i is the 0-based index
\* of the first "=".
KeyValueLine(p, clean, i) ==
    LET key == cleanKey(SubSeq(clean, 1, i))
    IN  IF key = <<>>
        THEN [p EXCEPT !.err = syntaxError(p.loc, msgEmptyKey, <<>>)]
        ELSE LET value == TrimSpace(SubSeq(clean, i + 2, Len(clean)))
                 q == IF key # p.curKey
                      THEN LET e == emit(p)
                           IN  IF e.err # Nil THEN e
                               ELSE [e EXCEPT !.keyLoc = e.loc, !.curKey = key]
                      ELSE p
             IN  IF q.err # Nil THEN q
                 ELSE [q EXCEPT !.values = Append(@, value)]

\* The loop body flushing the pending key on a blank line.
LoopBody_blankFlushes(p, text) ==
    LET p1 == [p EXCEPT !.loc.Line = @ + 1]
        clean == TrimSpace(text)
        isIndented == text # <<>> /\ (text[1] = " " \/ text[1] = "\t")
    IN  IF clean = <<>> THEN emit(p1)
        ELSE IF HasPrefix(clean, <<";">>)
        THEN LET e == emit(p1)
             IN  IF e.err # Nil THEN e ELSE h_comment(e, e.loc, text)
        ELSE IF clean[1] = "["
        THEN SectionLine(p1, clean)
        ELSE LET i == Index(clean, "=")
             IN  IF i < 0 THEN BareLine(p1, clean, isIndented)
                 ELSE KeyValueLine(p1, clean, i)

\* One iteration of the scanning loop, on the line text.  A result with
\* err # Nil means Parse returned that error from inside the loop.

\* LoopBody looking for "=" before it looks at the first character.
LoopBody_equalsFirst(p, text) ==
    LET p1 == [p EXCEPT !.loc.Line = @ + 1]
        clean == TrimSpace(text)
        isIndented == text # <<>> /\ (text[1] = " " \/ text[1] = "\t")
        i == Index(clean, "=")
    IN  IF clean = <<>> THEN p1
        ELSE IF i >= 0 THEN KeyValueLine(p1, clean, i)
        ELSE IF HasPrefix(clean, <<";">>)
        THEN LET e == emit(p1)
             IN  IF e.err # Nil THEN e ELSE h_comment(e, e.loc, text)
        ELSE IF clean[1] = "["
        THEN SectionLine(p1, clean)
        ELSE BareLine(p1, clean, isIndented)

LoopBody(p, text) ==
    LET p1 == [p EXCEPT !.loc.Line = @ + 1]
        clean == TrimSpace(text)
        isIndented == text # <<>> /\ (text[1] = " " \/ text[1] = "\t")
    IN  IF clean = <<>> THEN p1
        ELSE IF HasPrefix(clean, <<";">>)
        THEN LET e == emit(p1)
             IN  IF e.err # Nil THEN e ELSE h_comment(e, e.loc, text)
        ELSE IF clean[1] = "["
        THEN SectionLine(p1, clean)
        ELSE LET i == Index(clean, "=")
             IN  IF i < 0 THEN BareLine(p1, clean, isIndented)
                 ELSE KeyValueLine(p1, clean, i)

\* The end of Parse once buf.Scan() reports the end of the input.

\* AfterLoop returning at the end of the input without the final emit.
AfterLoop_noFlush(p, readFailed) ==
    IF readFailed THEN [p EXCEPT !.err = ReadErr] ELSE p


\* AfterLoop emitting what is pending before it looks at the read error.
AfterLoop_flushThenErr(p, readFailed) ==
    LET e == emit(p)
    IN  IF readFailed THEN [e EXCEPT !.err = ReadErr] ELSE e

AfterLoop(p, readFailed) ==
    IF readFailed THEN [p EXCEPT !.err = ReadErr] ELSE emit(p)

\* The scanning loop over lines: it stops at the first error.
RECURSIVE ScanLines(_, _)
ScanLines(p, lines) ==
    IF lines = <<>> \/ p.err # Nil THEN p
    ELSE ScanLines(LoopBody(p, Head(lines)), Tail(lines))

\* The loop and what follows it; readFails tells whether the reader fails
\* after lines instead of reporting the end of the input.
ScanAll(p, lines, readFails) ==
    LET q == ScanLines(p, lines)
    IN  IF q.err # Nil THEN q ELSE AfterLoop(q, readFails)

Parse(lines, hh, failAt, readFails) ==
    ScanAll(Scanner(hh, failAt), lines, readFails)

----------------------------------------------------------------------------
(* The inputs.                                                             *)

\* The lines of the line-by-line specification: one or two of each kind.
Lines ==
    { <<>>,                          \* blank
      <<" ">>,                       \* blank, white space only
      <<"a">>,                       \* bare key
      <<"a", "=">>,                  \* key with an empty value
      <<"a", "=", "x">>,             \* key with a value
      <<" ", "b", " ", "=", "y">>,   \* another key, indented
      <<" ", "x">>,                  \* indented line without "="
      <<"\t", "y", " ">>,            \* the same, by a tab
      <<";", "c">>,                  \* comment
      <<" ", ";", "c", " ">>,        \* comment with surrounding white space
      <<"[", "s", "]">>,             \* section header
      <<"[", " ", "t", " ", "]">>,   \* another section header
      <<"[", "s">>,                  \* unclosed section header
      <<"=", "x">> }                 \* empty key

\* The lines of the whole-input specification.
WholeLines ==
    { <<>>,
      <<"a">>,
      <<"a", "=">>,
      <<"a", "=", "x">>,
      <<" ", "b", " ", "=", "y">>,
      <<" ", "x">>,
      <<";", "c">>,
      <<"[", "s", "]">>,
      <<"[", "s">> }

Inputs(S, n) == UNION {[1..k -> S] : k \in 0..n}

\* The characters of the lines of the every-string specification.
Alphabet == {" ", "a", "=", ";", "[", "]"}

Strings(n) == UNION {[1..k -> Alphabet] : k \in 0..n}

\* The first line of the every-string specification, which sets the state
\* the string is scanned in: nothing pending, the key "a" pending, or
\* nothing pending inside section "a".
LexContext == { <<>>, <<"a", "=">>, <<"[", "a", "]">> }

----------------------------------------------------------------------------
(* The state machine.                                                      *)

P(failAt) ==
    [h |-> h, failAt |-> failAt, loc |-> loc, keyLoc |-> keyLoc,
     curKey |-> curKey, values |-> values, calls |-> calls, err |-> err]

Install(q, done) ==
    /\ loc' = q.loc
    /\ keyLoc' = q.keyLoc
    /\ curKey' = q.curKey
    /\ values' = q.values
    /\ calls' = q.calls
    /\ err' = q.err
    /\ pc' = IF done \/ q.err # Nil THEN "returned" ELSE "scan"
    /\ UNCHANGED h

Init ==
    /\ input = <<>>
    /\ loc = Location(0, <<>>)
    /\ keyLoc = Location(0, <<>>)
    /\ curKey = <<>>
    /\ values = <<>>
    /\ h = AllCallbacks
    /\ calls = <<>>
    /\ err = Nil
    /\ pc = "scan"

\* The callback invocations one loop iteration or the final emit can make
\* are the next two; the caller's callbacks may fail at either, or at none.
FailChoices == {0, Len(calls) + 1, Len(calls) + 2}

\* buf.Scan() delivers a line from S and the loop body runs on it.
Scan(S) ==
    /\ pc = "scan"
    /\ \E text \in S, f \in FailChoices :
          /\ input' = Append(input, text)
          /\ Install(LoopBody(P(f), text), FALSE)

\* buf.Scan() reports the end of the input; Parse emits what is pending.
Finish ==
    /\ pc = "scan"
    /\ \E f \in FailChoices : Install(AfterLoop(P(f), FALSE), TRUE)
    /\ UNCHANGED input

\* buf.Scan() stops on a read error; Parse returns buf.Err().
ReadError ==
    /\ pc = "scan"
    /\ Install(AfterLoop(P(0), TRUE), TRUE)
    /\ UNCHANGED input

ScanLine ==
    /\ Len(input) < MaxLines
    /\ Scan(Lines)

Next == ScanLine \/ Finish \/ ReadError

Spec == Init /\ [][Next]_vars

\* The every-string specification: a context line, then any one string over
\* Alphabet of at most MaxLineLen characters, then the end of the input.
Context ==
    /\ Len(input) = 0
    /\ Scan(LexContext)

ScanString ==
    /\ Len(input) = 1
    /\ Scan(Strings(MaxLineLen))

NextLex == Context \/ ScanString \/ Finish

SpecLex == Init /\ [][NextLex]_vars

\* The whole-input specification: Parse as a function of an input that is
\* given from the start (input is then the whole input, read or not), with
\* callbacks that fail at one invocation or never, and a reader that does
\* not fail.
InitWhole ==
    /\ input \in Inputs(WholeLines, MaxLines)
    /\ loc = Location(0, <<>>)
    /\ keyLoc = Location(0, <<>>)
    /\ curKey = <<>>
    /\ values = <<>>
    /\ h = AllCallbacks
    /\ calls = <<>>
    /\ err = Nil
    /\ pc = "scan"

Run ==
    /\ pc = "scan"
    /\ \E f \in 0..(2 * MaxLines) : Install(Parse(input, h, f, FALSE), TRUE)
    /\ UNCHANGED input

NextWhole == Run

SpecWhole == InitWhole /\ [][NextWhole]_vars


\* The nil-callback specification: Parse as a function of a whole input,
\* with any of the three callbacks nil, callbacks that fail at one
\* invocation or never, and a reader that fails or not.  NilLines has a
\* line of each kind that reaches a callback, and an invalid header.
NilLines ==
    { <<"a", "=", "x">>, <<" ", "x">>, <<"a">>, <<";", "c">>,
      <<"[", "s", "]">>, <<"[", "s">> }

InitNil ==
    /\ input \in Inputs(NilLines, MaxLines)
    /\ loc = Location(0, <<>>)
    /\ keyLoc = Location(0, <<>>)
    /\ curKey = <<>>
    /\ values = <<>>
    /\ h \in SUBSET AllCallbacks
    /\ calls = <<>>
    /\ err = Nil
    /\ pc = "scan"

RunAny ==
    /\ pc = "scan"
    /\ \E f \in 0..(2 * MaxLines), readFails \in BOOLEAN :
          Install(Parse(input, h, f, readFails), TRUE)
    /\ UNCHANGED input

NextNil == RunAny

SpecNil == InitNil /\ [][NextNil]_vars


\* The white-space specification: line by line as Spec, over lines whose
\* keys, section names and values have runs of white space inside and
\* around them.
NormLines ==
    { <<"a", " ", " ", "b", "=", "x", " ", "\t", " ", "y">>,
      <<" ", "a", "\t", "b", " ", "=", " ", "x">>,
      <<"a", "b", "=", "x">>,
      <<"a", " ", "b", "=", " ", " ">>,
      <<"\t", "x", " ", " ", "y", " ">>,
      <<"a", "\t", " ", "b", " ">>,
      <<"[", " ", "s", " ", "\t", "t", " ", "]">> }

ScanNorm ==
    /\ Len(input) < MaxLines
    /\ Scan(NormLines)

NextNorm == ScanNorm \/ Finish

SpecNorm == Init /\ [][NextNorm]_vars


\* The specification of a Parse that runs to its return: the loop reads
\* the next line as long as there is one, and the return follows the loop.
\* FairLines has the lines that continue a group (blank, same key,
\* continuation) and those that end it (comment, header, bare key, other
\* key).
FairLines ==
    { <<>>, <<"a", "=", "x">>, <<"b", "=", "x">>, <<" ", "x">>,
      <<";", "c">>, <<"a">>, <<"[", "s", "]">> }

ScanFair ==
    /\ Len(input) < MaxLines
    /\ Scan(FairLines)

NextFair == ScanFair \/ Finish \/ ReadError

SpecFair == Init /\ [][NextFair]_vars /\ WF_vars(NextFair)

----------------------------------------------------------------------------
(* Vocabulary of the properties.                                           *)

Callbacks == 1..Len(calls)

IsKeyValue(i) == calls[i].kind = "KeyValue"

IsComment(i) == calls[i].kind = "Comment"

IsSection(i) == calls[i].kind = "Section"

Succeeded == pc = "returned" /\ err = Nil

\* The invocation at which the caller's callbacks failed in this run, 0 if
\* none did.
FailedAt ==
    IF calls # <<>> /\ calls[Len(calls)].ret # Nil THEN Len(calls) ELSE 0

\* The scanner's state and the outcome of a run as one record.
Current == P(FailedAt)

\* The classes of lines, as the syntax describes them.
LineKind(text) ==
    LET t == TrimSpace(text)
    IN  IF t = <<>> THEN "blank"
        ELSE IF t[1] = ";" THEN "comment"
        ELSE IF t[1] = "[" THEN "section"
        ELSE IF \E i \in 1..Len(t) : t[i] = "=" THEN "keyvalue"
        ELSE IF text[1] \in {" ", "\t"} THEN "indented"
        ELSE "bare"

\* The key and the inline value of a key=value line.
KeyOf(text) == cleanKey(SubSeq(text, 1, Index(text, "=")))

ValueOf(text) == TrimSpace(SubSeq(text, Index(text, "=") + 2, Len(text)))

\* The three kinds of malformed line.
StartsWithBracket(text) ==
    TrimSpace(text) # <<>> /\ TrimSpace(text)[1] = "["

EndsWithBracket(text) ==
    TrimSpace(text)[Len(TrimSpace(text))] = "]"

Interior(text) ==
    cleanKey(SubSeq(TrimSpace(text), 2, Len(TrimSpace(text)) - 1))

UnclosedHeader(text) == StartsWithBracket(text) /\ ~EndsWithBracket(text)

InvalidName(text) ==
    /\ StartsWithBracket(text)
    /\ EndsWithBracket(text)
    /\ Interior(text) = <<>> \/ \E i \in 1..Len(Interior(text)) :
                                    Interior(text)[i] \in {"[", "]"}

EmptyKey(text) ==
    /\ \E i \in 1..Len(text) : text[i] = "="
    /\ cleanKey(SubSeq(text, 1, Index(text, "="))) = <<>>

IsSyntaxError(e, line, desc, key) ==
    /\ e.kind = "syntax"
    /\ e.Location.Line = line
    /\ e.Desc = desc
    /\ e.Key = key

\* The input with line i replaced by text.
Replace(lines, i, text) == [lines EXCEPT ![i] = text]

\* The input without its blank lines.
RECURSIVE NoBlank(_)
NoBlank(lines) ==
    IF lines = <<>> THEN <<>>
    ELSE IF LineKind(Head(lines)) = "blank" THEN NoBlank(Tail(lines))
    ELSE <<Head(lines)>> \o NoBlank(Tail(lines))

\* The name delivered by the last Section callback before invocation i,
\* "" when there is none.
SectionBefore(i) ==
    LET before == {j \in 1..(i - 1) : IsSection(j)}
    IN  IF before = {} THEN <<>> ELSE calls[SetMax(before)].text

----------------------------------------------------------------------------
(* C1.  Every invocation of the KeyValue callback receives at least one    *)
(* value, whether it comes from a flush of the pending key, from a bare    *)
(* key or from the final flush at the end of the input.                    *)

C1_ValuesNeverEmpty ==
    \A i \in Callbacks : IsKeyValue(i) => Len(calls[i].values) >= 1

\* "a=x", "a", "a=" and the end of the input: a flush by a later line, a
\* bare key and the final flush.
C1_Witness ==
    /\ Succeeded
    /\ input = << <<"a", "=", "x">>, <<"a">>, <<"a", "=">> >>
    /\ Len(calls) = 3
    /\ \A i \in Callbacks : IsKeyValue(i)
    /\ calls[2].values = << <<>> >>

----------------------------------------------------------------------------
(* C2.  The text passed to the Comment callback is the trimmed line: it    *)
(* includes the leading ";" and has no leading or trailing white space.    *)
(* Parse passes the raw line, so this fails for an indented comment.       *)

C2_CommentTextTrimmed ==
    \A i \in Callbacks :
        IsComment(i) => calls[i].text = TrimSpace(input[calls[i].loc.Line])

----------------------------------------------------------------------------
(* C3.  A KeyValue event with more than one value has no "" among its      *)
(* values.  Repeated "key=" lines of one key accumulate "" values, so this *)
(* fails.                                                                  *)

C3_NoEmptyAmongSeveral ==
    \A i \in Callbacks :
        IsKeyValue(i) /\ Len(calls[i].values) > 1
            => \A j \in 1..Len(calls[i].values) : calls[i].values[j] # <<>>

----------------------------------------------------------------------------
(* C4.  As claimed: a non-indented bare key line "foo" is equivalent to    *)
(* "foo=" and "foo =": whatever the lines before and after it, replacing   *)
(* one form by another yields the same handler events and the same result. *)
(* This fails: "foo=" starts a pending group and "foo" does not.           *)

Outcome(p) == [calls |-> p.calls, err |-> p.err]

WithEquals(text) == {text \o <<"=">>, text \o <<" ", "=">>}

OutcomeWith(i, text) ==
    Outcome(Parse(Replace(input, i, text), h, FailedAt, FALSE))

PendingBefore(i) == ScanLines(Scanner(h, 0), SubSeq(input, 1, i - 1)).curKey

\* A line that flushes a pending key other than its own without failing.
Separates(text, key) ==
    \/ LineKind(text) \in {"comment", "bare"}
    \/ LineKind(text) = "section" /\ ~UnclosedHeader(text) /\ ~InvalidName(text)
    \/ LineKind(text) = "keyvalue" /\ KeyOf(text) \notin {<<>>, key}

StandsAlone(i) ==
    LET later == {j \in (i + 1)..Len(input) : LineKind(input[j]) # "blank"}
    IN  /\ PendingBefore(i) # cleanKey(input[i])
        /\ later = {} \/ Separates(input[SetMin(later)], cleanKey(input[i]))

----------------------------------------------------------------------------
(* C5.  When a callback returns an error, Parse returns exactly that       *)
(* error and invokes no callback afterwards: the failing invocation is the *)
(* last one, Parse has returned, and its result is the callback's error.   *)

C5_HandlerErrorStops ==
    \A i \in Callbacks :
        calls[i].ret # Nil
            => /\ i = Len(calls)
               /\ pc = "returned"
               /\ err = calls[i].ret

\* A flush fails: the failing invocation delivers a key that began on an
\* earlier line than the one being scanned, and that line's own event is
\* not delivered.
C5_Witness ==
    /\ calls # <<>>
    /\ calls[Len(calls)].ret # Nil
    /\ IsKeyValue(Len(calls))
    /\ calls[Len(calls)].loc.Line < Len(input)
    /\ TrimSpace(input[Len(input)]) = <<";", "c">>

----------------------------------------------------------------------------
(* C6.  Parse fails with a SyntaxError carrying the 1-based number of the  *)
(* offending line in exactly three cases: a trimmed line that starts with  *)
(* "[" and does not end with "]" ("unclosed section header", Key the       *)
(* trimmed text after the "["); a bracketed line whose normalized interior *)
(* is empty or contains a bracket ("invalid section name", Key that name); *)
(* a line with "=" whose text before the first "=" normalizes to empty     *)
(* ("empty key", Key "").  No other line causes a syntax error.            *)

C6_SyntaxErrors ==
    /\ err.kind = "syntax" => input # <<>>
    /\ input # <<>> =>
         LET n == Len(input)
             text == input[n]
         IN  /\ UnclosedHeader(text) =>
                  IsSyntaxError(err, n, "unclosed section header",
                                Tail(TrimSpace(text)))
             /\ InvalidName(text) =>
                  IsSyntaxError(err, n, "invalid section name", Interior(text))
             /\ EmptyKey(text) => IsSyntaxError(err, n, "empty key", <<>>)
             /\ err.kind = "syntax" =>
                  UnclosedHeader(text) \/ InvalidName(text) \/ EmptyKey(text)

\* "[[a]" on line 2: an invalid section name carrying "[a".
C6_Witness ==
    /\ Len(input) = 2
    /\ input[2] = <<"[", "[", "a", "]">>
    /\ IsSyntaxError(err, 2, "invalid section name", <<"[", "a">>)
    /\ pc = "returned"

----------------------------------------------------------------------------
(* Groups of lines: a key=value line, and the blank lines, the indented    *)
(* lines without "=" and the key=value lines of the same key after it, up  *)
(* to the first line of another kind.                                      *)

InGroup(text, key) ==
    \/ LineKind(text) \in {"blank", "indented"}
    \/ LineKind(text) = "keyvalue" /\ KeyOf(text) = key

\* Line i is a key=value line that continues the group of line j.
Joins(j, i) ==
    /\ j < i
    /\ LineKind(input[j]) = "keyvalue"
    /\ LineKind(input[i]) = "keyvalue"
    /\ KeyOf(input[j]) = KeyOf(input[i])
    /\ \A m \in (j + 1)..(i - 1) : InGroup(input[m], KeyOf(input[i]))

\* Line i is the first line of a group.
Starts(i) ==
    /\ LineKind(input[i]) = "keyvalue"
    /\ ~ \E j \in 1..(i - 1) : Joins(j, i)

\* The last line of the group that starts at line i.
GroupEnd(i) ==
    SetMax({j \in i..Len(input) :
               \A m \in i..j : InGroup(input[m], KeyOf(input[i]))})

RECURSIVE Ascending(_)
Ascending(S) ==
    IF S = {} THEN <<>>
    ELSE <<SetMin(S)>> \o Ascending(S \ {SetMin(S)})

\* The lines of the group of line i that carry a value, in input order.
Carriers(i) ==
    Ascending({j \in i..GroupEnd(i) : LineKind(input[j]) # "blank"})

KeyValueLines(i) ==
    {j \in i..GroupEnd(i) : LineKind(input[j]) = "keyvalue"}

\* The value a line of a group carries: the trimmed text after the first
\* "=" of a key=value line, the trimmed text of a continuation line.
PerLine(j) ==
    IF LineKind(input[j]) = "keyvalue" THEN ValueOf(input[j])
    ELSE TrimSpace(input[j])

PerLineValues(i) == [n \in 1..Len(Carriers(i)) |-> PerLine(Carriers(i)[n])]

\* The lines i..j are delivered as one KeyValue event, located at line i,
\* with the key of line i and the values vals.
DeliveredOnce(i, j, vals) ==
    \E n \in Callbacks :
        /\ {m \in Callbacks : calls[m].loc.Line \in i..j} = {n}
        /\ IsKeyValue(n)
        /\ calls[n].loc.Line = i
        /\ calls[n].text = KeyOf(input[i])
        /\ calls[n].values = vals

\* Line i has a KeyValue event of its own.
DeliveredAt(i) ==
    \E n \in Callbacks :
        /\ IsKeyValue(n)
        /\ calls[n].loc.Line = i
        /\ calls[n].text = KeyOf(input[i])

----------------------------------------------------------------------------
(* C7.  As claimed: consecutive key=value lines with the same key, with    *)
(* only blank lines and continuation lines between them, are delivered as  *)
(* one KeyValue event whose values are the per-line values in input order  *)
(* and whose location is the first line; occurrences separated by a        *)
(* comment, a section header, a bare key or another key are delivered as   *)
(* separate events.  This fails when the first line has an empty value     *)
(* and a continuation line follows it: the empty value is not delivered.   *)

C7_SameKeyAccumulates ==
    Succeeded =>
        \A i \in 1..Len(input) :
            Starts(i) =>
                /\ DeliveredAt(i)
                /\ Cardinality(KeyValueLines(i)) >= 2
                      => DeliveredOnce(i, GroupEnd(i), PerLineValues(i))

(* C7, amended.  The values are the per-line values in input order, except *)
(* that an empty inline value of the first line is left out when the next  *)
(* non-blank line is a continuation line (its text takes the place of the  *)
(* empty value).  This is for a Parse that returns nil.                    *)

FirstValueReplaced(i) ==
    /\ Len(Carriers(i)) >= 2
    /\ ValueOf(input[i]) = <<>>
    /\ LineKind(input[Carriers(i)[2]]) = "indented"

AccumulatedValues(i) ==
    IF FirstValueReplaced(i) THEN Tail(PerLineValues(i))
    ELSE PerLineValues(i)

C7_SameKeyAccumulatesAmended ==
    Succeeded =>
        \A i \in 1..Len(input) :
            Starts(i) =>
                /\ DeliveredAt(i)
                /\ Cardinality(KeyValueLines(i)) >= 2
                      => DeliveredOnce(i, GroupEnd(i), AccumulatedValues(i))

\* "a=x", "a=", "a=x": one event at line 1 with the three values.
C7_Witness ==
    /\ Succeeded
    /\ input = << <<"a", "=", "x">>, <<"a", "=">>, <<"a", "=", "x">> >>
    /\ Len(calls) = 1
    /\ calls[1].loc.Line = 1
    /\ calls[1].values = << <<"x">>, <<>>, <<"x">> >>

----------------------------------------------------------------------------
(* C8.  A "key=" line with an empty inline value followed by one or more   *)
(* indented lines without "=" yields exactly one KeyValue event for that   *)
(* key, whose values are exactly the trimmed continuation lines in input   *)
(* order; with a non-empty inline value the continuations come after it.   *)
(* The group is a key=value line that starts a group and has no other      *)
(* key=value line in it, and Parse returns nil.                            *)

Continuations(i) ==
    Ascending({j \in (i + 1)..GroupEnd(i) : LineKind(input[j]) = "indented"})

TrimmedContinuations(i) ==
    [n \in 1..Len(Continuations(i)) |-> TrimSpace(input[Continuations(i)[n]])]

C8_Continuations ==
    Succeeded =>
        \A i \in 1..Len(input) :
            /\ Starts(i)
            /\ KeyValueLines(i) = {i}
            /\ Continuations(i) # <<>>
            => DeliveredOnce(i, GroupEnd(i),
                             IF ValueOf(input[i]) = <<>>
                             THEN TrimmedContinuations(i)
                             ELSE <<ValueOf(input[i])>>
                                      \o TrimmedContinuations(i))

\* "a=", " x", "<tab>y ": one event for a with the values x and y.
C8_Witness ==
    /\ Succeeded
    /\ input = << <<"a", "=">>, <<" ", "x">>, <<"\t", "y", " ">> >>
    /\ Len(calls) = 1
    /\ IsKeyValue(1)
    /\ calls[1].loc.Line = 1
    /\ calls[1].values = << <<"x">>, <<"y">> >>

----------------------------------------------------------------------------
(* C9.  Blank lines (empty or white space only) are transparent: they emit *)
(* no event and never flush or reset the pending key, and deleting them    *)
(* changes only line numbers.  At every point of the scan the events so    *)
(* far, the pending key and its values, the current section and the result *)
(* are, line numbers apart, those of the scan of the lines read so far     *)
(* with the blank ones left out; an input of blank lines alone emits no    *)
(* event and returns no error.                                             *)

StripCall(c) ==
    [kind |-> c.kind, Section |-> c.loc.Section, text |-> c.text,
     values |-> c.values, ret |-> c.ret]

StripErr(e) ==
    IF e.kind = "syntax"
    THEN [kind |-> "syntax", Section |-> e.Location.Section,
          Desc |-> e.Desc, Key |-> e.Key]
    ELSE e

Shape(p) ==
    [calls |-> [i \in 1..Len(p.calls) |-> StripCall(p.calls[i])],
     err |-> StripErr(p.err),
     curKey |-> p.curKey,
     values |-> p.values,
     Section |-> p.loc.Section,
     keySection |-> IF p.curKey = <<>> THEN <<>> ELSE p.keyLoc.Section]

\* The scan of lines up to the point the current run has reached, with the
\* callbacks and the reader behaving as in the current run.
SameRunOn(lines) ==
    IF pc = "scan" THEN ScanLines(Scanner(h, FailedAt), lines)
    ELSE ScanAll(Scanner(h, FailedAt), lines, err = ReadErr)

C9_BlankLinesTransparent ==
    /\ Shape(Current) = Shape(SameRunOn(NoBlank(input)))
    /\ (\A i \in 1..Len(input) : LineKind(input[i]) = "blank")
          => calls = <<>> /\ err \in {Nil, ReadErr}

\* "a=x", " ", " x": the blank line between the key and its continuation
\* does not end the accumulation.
C9_Witness ==
    /\ Succeeded
    /\ input = << <<"a", "=", "x">>, <<" ">>, <<" ", "x">> >>
    /\ Len(calls) = 1
    /\ calls[1].values = << <<"x">>, <<"x">> >>
    /\ calls[1].loc.Line = 1

----------------------------------------------------------------------------
(* C10.  The Section callback gets in loc.Section the name of the section  *)
(* header delivered before it ("" for the first), and every event up to    *)
(* the next header carries the new name in loc.Section.                    *)

C10_SectionLocation ==
    \A i \in Callbacks : calls[i].loc.Section = SectionBefore(i)

\* "[s]", "a=x", "[ t ]": the key is delivered in section "s", and so is
\* the second header.
C10_Witness ==
    /\ Len(calls) = 3
    /\ IsSection(1) /\ calls[1].text = <<"s">> /\ calls[1].loc.Section = <<>>
    /\ IsKeyValue(2) /\ calls[2].loc.Section = <<"s">>
    /\ IsSection(3) /\ calls[3].text = <<"t">>
    /\ calls[3].loc.Section = <<"s">>

----------------------------------------------------------------------------
(* C11.  Every KeyValue event carries the location where its key first     *)
(* appeared: Line is the physical number of the first line of its group    *)
(* (or of the bare key's own line), not of a continuation line or of the   *)
(* line that triggered the flush; Section is the section current at that   *)
(* line, which is also the last section header delivered before the event. *)

\* The section current when line i is read: the name in the last section
\* header before it.
SectionAtLine(i) ==
    LET headers == {j \in 1..(i - 1) : LineKind(input[j]) = "section"}
    IN  IF headers = {} THEN <<>> ELSE Interior(input[SetMax(headers)])

\* Line i is where the key of event n first appeared.
FirstAppearance(i, n) ==
    \/ /\ Starts(i)
       /\ KeyOf(input[i]) = calls[n].text
    \/ /\ LineKind(input[i]) \in {"bare", "indented"}
       /\ cleanKey(input[i]) = calls[n].text
       /\ calls[n].values = << <<>> >>

C11_KeyValueLocation ==
    \A n \in Callbacks :
        IsKeyValue(n) =>
            /\ calls[n].loc.Line \in 1..Len(input)
            /\ FirstAppearance(calls[n].loc.Line, n)
            /\ calls[n].loc.Section = SectionAtLine(calls[n].loc.Line)
            /\ calls[n].loc.Section = SectionBefore(n)

\* "[s]", "a=x", " x" and the end of the input: the event of the final
\* flush is located at line 2, in section "s".
C11_Witness ==
    /\ Succeeded
    /\ input = << <<"[", "s", "]">>, <<"a", "=", "x">>, <<" ", "x">> >>
    /\ Len(calls) = 2
    /\ IsKeyValue(2)
    /\ calls[2].loc = Location(2, <<"s">>)
    /\ Len(calls[2].values) = 2

----------------------------------------------------------------------------
(* C12.  Callbacks are invoked in document order: the Line numbers of      *)
(* successive invocations, deferred flushes included, strictly increase,   *)
(* so a pending key is delivered before the comment, section, bare key or  *)
(* different key that follows it.                                          *)

C12_DocumentOrder ==
    \A i, j \in Callbacks : i < j => calls[i].loc.Line < calls[j].loc.Line

\* "a=x", "a", ";c": the flush of line 1, the bare key of line 2 and the
\* comment of line 3, in that order.
C12_Witness ==
    /\ input = << <<"a", "=", "x">>, <<"a">>, <<";", "c">> >>
    /\ Len(calls) = 3
    /\ IsKeyValue(1) /\ calls[1].loc.Line = 1 /\ calls[1].values = << <<"x">> >>
    /\ IsKeyValue(2) /\ calls[2].loc.Line = 2
    /\ IsComment(3) /\ calls[3].loc.Line = 3

----------------------------------------------------------------------------
(* C13.  A nil callback behaves like a callback that always succeeds:      *)
(* Parse with some callbacks nil returns the same result as Parse with     *)
(* them present and returning no error, and invokes the remaining          *)
(* callbacks with the same sequence of arguments (and so gets the same     *)
(* answers from them).                                                     *)

\* The invocations of the callbacks in hh among cs, in order.
Remaining(cs, hh) == SelectSeq(cs, LAMBDA c : c.kind \in hh)

\* The number, among all invocations of a run with every callback present,
\* of invocation k of the callbacks in hh (0 for k = 0 or when there are
\* fewer than k).
NumberAmongAll(cs, hh, k) ==
    LET at == {i \in 1..Len(cs) :
                  /\ cs[i].kind \in hh
                  /\ Len(Remaining(SubSeq(cs, 1, i), hh)) = k}
    IN  IF k = 0 \/ at = {} THEN 0 ELSE SetMin(at)

\* The run on the same input with every callback present, the callbacks
\* that are nil in this run never failing and the others failing where
\* they failed in this run.
AllPresent ==
    LET quiet == Parse(input, AllCallbacks, 0, err = ReadErr)
    IN  Parse(input, AllCallbacks,
              NumberAmongAll(quiet.calls, h, FailedAt), err = ReadErr)

C13_NilCallbackSucceeds ==
    pc = "returned" =>
        /\ err = AllPresent.err
        /\ calls = Remaining(AllPresent.calls, h)

\* "a=x", ";c", "[s]" with only the Comment callback: the key and the
\* header are skipped without error and the comment is delivered.
C13_Witness ==
    /\ Succeeded
    /\ h = {"Comment"}
    /\ input = << <<"a", "=", "x">>, <<";", "c">>, <<"[", "s", "]">> >>
    /\ Len(calls) = 1
    /\ IsComment(1) /\ calls[1].loc.Line = 2

----------------------------------------------------------------------------
(* C14.  Every key and every section name delivered is white-space         *)
(* normalized: it has no leading or trailing white space, every run of     *)
(* white space inside it is one space, and its words are the words of its  *)
(* text in the input.  Two key texts that differ only in white space are   *)
(* one key for accumulation.  Every delivered value is its text in the     *)
(* input with the outer white space trimmed and the inner white space      *)
(* kept as it is.                                                          *)

Normalized(s) ==
    /\ s # <<>> => ~IsSpace(s[1]) /\ ~IsSpace(s[Len(s)])
    /\ \A i \in 1..Len(s) :
          IsSpace(s[i]) => s[i] = " " /\ (i < Len(s) => ~IsSpace(s[i + 1]))

\* The text of a line that names its key or its section, as it is in the
\* input: the text before the first "=", the whole of a line without "=",
\* the text between the brackets of a header.
NameText(text) ==
    LET t == TrimSpace(text)
    IN  IF LineKind(text) = "section" THEN SubSeq(t, 2, Len(t) - 1)
        ELSE IF LineKind(text) = "keyvalue" THEN SubSeq(t, 1, Index(t, "="))
        ELSE t

\* s and t differ only in white space: they have the same words.
OnlyWhiteSpaceDiffers(s, t) == Fields(s) = Fields(t)

\* Line i is a key=value line whose key text differs only in white space
\* from that of an earlier key=value line j, with nothing but blank lines
\* and continuation lines between the two.
SameKeyText(j, i) ==
    /\ j < i
    /\ LineKind(input[j]) = "keyvalue"
    /\ LineKind(input[i]) = "keyvalue"
    /\ OnlyWhiteSpaceDiffers(NameText(input[j]), NameText(input[i]))
    /\ \A m \in (j + 1)..(i - 1) : LineKind(input[m]) \in {"blank", "indented"}

C14_WhitespaceNormalized ==
    /\ \A n \in Callbacks :
          IsKeyValue(n) \/ IsSection(n) =>
              /\ Normalized(calls[n].text)
              /\ OnlyWhiteSpaceDiffers(calls[n].text,
                                       NameText(input[calls[n].loc.Line]))
    /\ \A i \in 1..Len(input) : \A j \in 1..(i - 1) :
          SameKeyText(j, i) =>
              ~ \E n \in Callbacks : calls[n].loc.Line = i
    /\ Succeeded =>
          \A i \in 1..Len(input) :
              Starts(i) =>
                  \E n \in Callbacks :
                      /\ IsKeyValue(n)
                      /\ calls[n].loc.Line = i
                      /\ calls[n].values = AccumulatedValues(i)

\* "a  b=x <tab> y" and " a<tab>b = x": one event for the key "a b" with
\* the values "x <tab> y" and "x".
C14_Witness ==
    /\ Succeeded
    /\ input = << <<"a", " ", " ", "b", "=", "x", " ", "\t", " ", "y">>,
                  <<" ", "a", "\t", "b", " ", "=", " ", "x">> >>
    /\ Len(calls) = 1
    /\ IsKeyValue(1)
    /\ calls[1].text = <<"a", " ", "b">>
    /\ calls[1].values = << <<"x", " ", "\t", " ", "y">>, <<"x">> >>

----------------------------------------------------------------------------
(* C15.  A line without "=" that is not indented, or that is indented      *)
(* while no key is pending, first flushes the pending key and then         *)
(* delivers a KeyValue event at its own line, with its normalized text as  *)
(* the key and the one value "".  It never becomes the pending key: an     *)
(* indented line without "=" right after a bare key is delivered as a      *)
(* bare key of its own, and the event of the bare key before it keeps its  *)
(* one value "".                                                           *)

\* The scanner as it was before line i, every callback having succeeded.
Before(i) == ScanLines(Scanner(h, 0), SubSeq(input, 1, i - 1))

\* The invocation that flushes the key pending in q, if there is one.
Flush(q) ==
    IF q.curKey = <<>> THEN <<>>
    ELSE << [kind |-> "KeyValue", loc |-> q.keyLoc, text |-> q.curKey,
             values |-> q.values, ret |-> Nil] >>

\* Line i is a bare key: without "=" and unindented, or indented with no
\* key pending.
BareKey(i) ==
    \/ LineKind(input[i]) = "bare"
    \/ LineKind(input[i]) = "indented" /\ Before(i).curKey = <<>>

BareKeyEvent(i) ==
    [kind |-> "KeyValue",
     loc |-> Location(i, Before(i).loc.Section),
     text |-> cleanKey(input[i]),
     values |-> << <<>> >>,
     ret |-> Nil]

C15_BareKeyImmediate ==
    LET n == Len(input)
    IN  /\ pc = "scan" /\ n >= 1 /\ BareKey(n) =>
              /\ calls = Before(n).calls \o Flush(Before(n))
                             \o <<BareKeyEvent(n)>>
              /\ curKey = <<>>
              /\ values = <<>>
        /\ /\ pc = "scan" /\ n >= 2
           /\ LineKind(input[n - 1]) = "bare"
           /\ LineKind(input[n]) = "indented"
           => /\ Len(calls) >= 2
              /\ calls[Len(calls)] = BareKeyEvent(n)
              /\ calls[Len(calls) - 1] = BareKeyEvent(n - 1)

\* "a=x", "a", "<tab>y ": the pending a is flushed, the bare a is
\* delivered at line 2 and the indented y at line 3, each with [""].
C15_Witness ==
    /\ pc = "scan"
    /\ input = << <<"a", "=", "x">>, <<"a">>, <<"\t", "y", " ">> >>
    /\ Len(calls) = 3
    /\ calls[1].values = << <<"x">> >>
    /\ calls[2].loc.Line = 2 /\ calls[2].values = << <<>> >>
    /\ calls[3].loc.Line = 3 /\ calls[3].text = <<"y">>
    /\ calls[3].values = << <<>> >>
    /\ curKey = <<>>

----------------------------------------------------------------------------
(* C16.  Syntax validation precedes flushing.  When a line is an unclosed  *)
(* header, has an invalid section name or has an empty key, Parse returns  *)
(* the SyntaxError, whatever the callbacks would answer; the pending       *)
(* key's KeyValue event is not delivered, no callback is invoked for that  *)
(* line or a later one, and the events delivered are exactly those         *)
(* delivered before that line.                                             *)

Malformed(text) ==
    UnclosedHeader(text) \/ InvalidName(text) \/ EmptyKey(text)

C16_ValidationBeforeFlush ==
    LET n == Len(input)
    IN  /\ err.kind = "syntax" => n >= 1 /\ Malformed(input[n])
        /\ n >= 1 /\ Malformed(input[n]) =>
              /\ err.kind = "syntax"
              /\ pc = "returned"
              /\ calls = Before(n).calls
              /\ \A c \in Callbacks : calls[c].loc.Line < n
              /\ Before(n).curKey # <<>> =>
                    ~ \E c \in Callbacks :
                          /\ IsKeyValue(c)
                          /\ calls[c].loc.Line = Before(n).keyLoc.Line

\* "a=" then "[]": a is pending when the invalid section name is found;
\* Parse returns the error and a is never delivered.
C16_Witness ==
    /\ input = << <<"a", "=">>, <<"[", "]">> >>
    /\ pc = "returned"
    /\ IsSyntaxError(err, 2, msgInvalidSection, <<>>)
    /\ Before(2).curKey = <<"a">>
    /\ calls = <<>>

----------------------------------------------------------------------------
(* C17.  When no callback fails and there is no syntax or read error,      *)
(* every group that is started is eventually delivered in exactly one      *)
(* KeyValue event, never dropped and never delivered twice: it is pending  *)
(* until the next comment, section header, bare key or different key is    *)
(* read, or until the final flush after the last line, and is delivered    *)
(* then, before any event of a later line.  When Parse returns nil no      *)
(* accumulated key is left undelivered.                                    *)

\* The invocations located at the lines of the group that starts at line i.
GroupCalls(i) == {n \in Callbacks : calls[n].loc.Line \in i..GroupEnd(i)}

\* The group that starts at line i is delivered: by one KeyValue event, at
\* line i, with its key, before every event of a later line.
GroupDelivered(i) ==
    \E n \in Callbacks :
        /\ GroupCalls(i) = {n}
        /\ IsKeyValue(n)
        /\ calls[n].loc.Line = i
        /\ calls[n].text = KeyOf(input[i])
        /\ \A m \in Callbacks : calls[m].loc.Line > GroupEnd(i) => n < m

\* The group that starts at line i is pending and has not been delivered.
GroupPending(i) ==
    /\ GroupCalls(i) = {}
    /\ pc = "scan"
    /\ curKey = KeyOf(input[i])
    /\ keyLoc.Line = i
    /\ values # <<>>

\* A line after the group has been read, or the input has ended.
GroupClosed(i) == GroupEnd(i) < Len(input) \/ pc = "returned"

GroupsDeliveredOnce ==
    err = Nil =>
        /\ \A i \in 1..Len(input) :
              Starts(i) => IF GroupClosed(i) THEN GroupDelivered(i)
                           ELSE GroupPending(i)
        /\ pc = "returned" => curKey = <<>> /\ values = <<>>

Started(i) == Len(input) >= i /\ Starts(i)

C17_EveryGroupDelivered ==
    /\ []GroupsDeliveredOnce
    /\ \A i \in 1..MaxLines :
          Started(i) ~> (err # Nil \/ (Started(i) /\ GroupDelivered(i)))

\* "a=x", " x", ";c" read to the end: the group of a is delivered once, at
\* line 1 with its two values, before the comment.
C17_Witness ==
    /\ Succeeded
    /\ input = << <<"a", "=", "x">>, <<" ", "x">>, <<";", "c">> >>
    /\ Len(calls) = 2
    /\ GroupDelivered(1)
    /\ calls[1].values = << <<"x">>, <<"x">> >>
    /\ IsComment(2)

----------------------------------------------------------------------------
(* C18.  If reading the input fails, Parse returns the read error after    *)
(* the lines already read have been processed, and without the final       *)
(* flush: the events delivered are those of the lines read, and a key      *)
(* pending at the read error is never delivered.                           *)

\* The scanner after the lines read so far, every callback having succeeded.
AfterLines == ScanLines(Scanner(h, 0), input)

C18_ReadErrorNoFlush ==
    err = ReadErr =>
        /\ pc = "returned"
        /\ AfterLines.err = Nil
        /\ calls = AfterLines.calls
        /\ curKey = AfterLines.curKey
        /\ curKey # <<>> =>
              ~ \E n \in Callbacks :
                    IsKeyValue(n) /\ calls[n].loc.Line >= keyLoc.Line

\* ";c", "a=x", " x", then the read fails: the comment was delivered, a is
\* pending with two values and is not delivered.
C18_Witness ==
    /\ err = ReadErr
    /\ input = << <<";", "c">>, <<"a", "=", "x">>, <<" ", "x">> >>
    /\ Len(calls) = 1 /\ IsComment(1)
    /\ curKey = <<"a">>
    /\ Len(values) = 2

----------------------------------------------------------------------------
(* C19.  The first character of the trimmed line decides its kind before   *)
(* "=" or indentation is looked at.  A line whose trimmed text starts      *)
(* with ";" is delivered as a comment, and one whose trimmed text starts   *)
(* with "[" is a section header or a syntax error, also when the line has  *)
(* "=" in it or is indented while a key is pending.  Such a line is never  *)
(* delivered as a key, a value or a continuation, and it ends the          *)
(* accumulation of the pending key: the key is flushed with the values it  *)
(* had before the line, and nothing is pending after the line.             *)

SameArguments(c, d) ==
    /\ c.kind = d.kind
    /\ c.loc = d.loc
    /\ c.text = d.text
    /\ c.values = d.values

\* The kind of callback the first character of the trimmed line calls for.
KindByFirst(text) ==
    IF TrimSpace(text)[1] = ";" THEN "Comment" ELSE "Section"

C19_FirstCharacterDecides ==
    LET n == Len(input)
    IN  n >= 1 /\ LineKind(input[n]) \in {"comment", "section"} =>
        LET text == input[n]
            prev == Before(n)
            old == Len(prev.calls)
        IN  /\ LineKind(text) = "comment" => err.kind # "syntax"
            /\ LineKind(text) = "section" =>
                  (err.kind = "syntax"
                      <=> UnclosedHeader(text) \/ InvalidName(text))
            /\ SubSeq(calls, 1, old) = prev.calls
            /\ \A c \in (old + 1)..Len(calls) :
                  \/ /\ c = old + 1
                     /\ Flush(prev) # <<>>
                     /\ SameArguments(calls[c], Flush(prev)[1])
                  \/ /\ c = old + Len(Flush(prev)) + 1
                     /\ calls[c].kind = KindByFirst(text)
                     /\ calls[c].loc = Location(n, prev.loc.Section)
            /\ pc = "scan" =>
                  /\ Len(calls) = old + Len(Flush(prev)) + 1
                  /\ curKey = <<>>
                  /\ values = <<>>

\* "a=" then " ;=": the indented line with "=" in it is a comment; a is
\* flushed with its one empty value and nothing is pending.
C19_Witness ==
    /\ pc = "scan"
    /\ input = << <<"a", "=">>, <<" ", ";", "=">> >>
    /\ Len(calls) = 2
    /\ IsKeyValue(1) /\ calls[1].text = <<"a">> /\ calls[1].values = << <<>> >>
    /\ IsComment(2) /\ calls[2].loc.Line = 2
    /\ curKey = <<>>

----------------------------------------------------------------------------
(* C20.  At every line boundary of the scan, before each line is read and  *)
(* at the end of the input, the accumulator is consistent: the pending     *)
(* key is non-empty exactly when the list of accumulated values is         *)
(* non-empty.  Right after a flush, whether its callback succeeded or      *)
(* failed, the pending key and the list of values are both empty.          *)

Cleared(q) == q.curKey = <<>> /\ q.values = <<>>

\* The last invocation is a flush: the KeyValue event of a key=value line
\* (the event of a bare key is not delivered by a flush).
LastIsFlush ==
    /\ calls # <<>>
    /\ IsKeyValue(Len(calls))
    /\ LineKind(input[calls[Len(calls)].loc.Line]) = "keyvalue"

\* The last line read made no invocation after the flush.
FlushWasLast ==
    \/ pc = "returned" /\ err = Nil
    \/ calls[Len(calls)].ret # Nil

C20_AccumulatorConsistent ==
    /\ pc = "scan" =>
          /\ (curKey # <<>>) <=> (values # <<>>)
          /\ \A f \in FailChoices : Cleared(emit(P(f)))
    /\ LastIsFlush /\ FlushWasLast => curKey = <<>> /\ values = <<>>
    /\ Succeeded => curKey = <<>> /\ values = <<>>

\* "a=x" then ";c", the KeyValue callback failing on the flush of a: the
\* accumulator is empty although a was not accepted.
C20_Witness ==
    /\ input = << <<"a", "=", "x">>, <<";", "c">> >>
    /\ err = HandlerErr
    /\ Len(calls) = 1
    /\ LastIsFlush
    /\ calls[1].text = <<"a">> /\ calls[1].ret = HandlerErr
    /\ curKey = <<>> /\ values = <<>>

====
